---------------------------- MODULE Spec2Model ----------------------------
(***************************************************************************)
(* Generation Job Orchestrator of xobi667/xiaobaibai.                      *)
(*                                                                         *)
(*  - the request handler generate_material_image                          *)
(*    (backend/controllers/material_controller.py) and the Task record     *)
(*    (backend/models/task.py);                                            *)
(*  - the background worker of services/task_manager.py, whose source is   *)
(*    not part of the tree and is modelled from the design document;       *)
(*  - the Images-API attempt loop of OpenAIImageProvider and the routing   *)
(*    of its generate_image between the Images API and the chat endpoint   *)
(*    (backend/services/ai_providers/image/openai_provider.py), and the    *)
(*    extraction of the image from a chat response in the same file;       *)
(*  - the Task progress record on its own (backend/models/task.py);        *)
(*  - update_settings (backend/controllers/settings_controller.py);        *)
(*  - serve_mineru_file (backend/controllers/file_controller.py) with      *)
(*    find_file_with_prefix (backend/utils/path_utils.py).                 *)
(***************************************************************************)
EXTENDS Integers, Sequences, FiniteSets, TLC

(* ------------------------------ bounds --------------------------------- *)

\* generate requests handled concurrently (one Task id per request)
MaxReq == 2

\* sub-steps of one batch job (its progress total)
MaxTotal == 3

\* largest OPENAI_MAX_RETRIES the configuration is given
MaxConfiguredRetries == 6

VARIABLES
    hpc,        \* handler position of each request
    resp,       \* HTTP status returned to the caller, 0 while none
    tempdirs,   \* requests whose temporary directory is on disk
    tasks,      \* committed rows of table tasks, by Task.id
    wpc,        \* worker position of the work submitted under each id
    active,     \* executions submitted under each id and not yet finished
    submits,    \* submit_task calls accepted under each id
    rejected,   \* ids whose submission was rejected
    sub,        \* state of each sub-step of each job
    local,      \* prog, the local of update_progress, per sub-step
    lock,       \* holder of the progress mutation guard of each job, 0 if free
    ipc,            \* position in _generate_image_via_images_api
    configured,     \* get_config().OPENAI_MAX_RETRIES
    prompt_variants,\* the list the call builds, in order
    vi,             \* index of the prompt variant of the outer loop
    attempt,        \* attempt of the inner loop
    nreq,           \* requests sent so far for each prompt variant
    last,           \* what the last request ended in
    wait,           \* the time.sleep after the last request, 0 when none
    hinted,         \* whether wait was read from Retry-After
    allTransient,   \* every attempt of this variant was a plain transient failure
    given,          \* what the call was given: provider, model family, prompt
    last_error_message, \* the local of that name
    error,          \* the exception _generate_image_via_images_api raised
    gpc,            \* position in generate_image
    model,          \* self.model
    ref_images,     \* whether the caller passed reference images
    images_calls,   \* calls of _generate_image_via_images_api so far
    chat_calls,     \* calls of _generate_image_via_chat_completions so far
    chat_refs,      \* whether a chat call was given the reference images
    chat_failure,   \* the text of the exception of the failed chat call
    surfaced,       \* what generate_image raised to its caller
    trow,           \* one row of table tasks, outside any job
    tcall,          \* the last Task method called on trow, with its arguments
    stored,         \* the committed row of table settings
    config,         \* current_app.config, the keys update_settings syncs
    session,        \* the Settings object db.session holds, <<>> when none
    sreq,           \* the body of the last PUT /api/settings
    sresp,          \* the HTTP status it was answered with, 0 before any
    fs,             \* the files and directories on disk, by absolute path
    freq,           \* the last GET /files/mineru/<extract_id>/<filepath>
    fresp,          \* its status and the file it was served
    chat_message,   \* response.choices[0].message of a chat call
    extracted       \* what the extraction of lines 446-567 ended in

jobVars == <<hpc, resp, tempdirs, tasks, wpc, active, submits, rejected,
             sub, local, lock>>

imgVars == <<ipc, configured, prompt_variants, vi, attempt, nreq, last, wait,
             hinted, allTransient, given, last_error_message, error>>

genVars == <<gpc, model, ref_images, images_calls, chat_calls, chat_refs,
             chat_failure, surfaced>>

taskVars == <<trow, tcall>>

\* what the job, image and generate_image steps leave alone
setVars == <<stored, config, session, sreq, sresp>>

fileVars == <<fs, freq, fresp>>

chatVars == <<chat_message, extracted>>

extVars == <<taskVars, setVars, fileVars, chatVars>>

Reqs == 1..MaxReq

\* Task.id is a fresh uuid4 per Task(): the Task of request r has id r
Jobs == Reqs

Steps == 1..MaxTotal

(* ---------------------- backend/models/task.py ------------------------- *)

\* the value get_progress returns when the column is NULL
ZeroProgress == [total |-> 0, completed |-> 0, failed |-> 0]

\* a JSON text: whether json.loads can parse it and, for the text of an
\* object, its members as pairs of key and value
json_dumps(data) ==
    [valid |-> TRUE, members |-> {<<k, data[k]>> : k \in DOMAIN data}]

\* json.loads of the text of an object: the dict of its members
json_loads(text) ==
    [k \in {m[1] : m \in text.members} |->
         (CHOOSE m \in text.members : m[1] = k)[2]]

\* a text json.loads raises JSONDecodeError on
NotJson == [valid |-> FALSE, members |-> {}]

\* the progress column: <<>> is NULL, <<t>> holds the text t
get_progress(task) ==
    IF task.progress # <<>>
    THEN IF Head(task.progress).valid
         THEN json_loads(Head(task.progress))
         ELSE ZeroProgress
    ELSE ZeroProgress

\* json.dumps(data) when data is a non-empty dict, else NULL
set_progress(task, data) ==
    IF DOMAIN data # {}
    THEN [task EXCEPT !.progress = <<json_dumps(data)>>]
    ELSE [task EXCEPT !.progress = <<>>]

\* an argument of update_progress: <<>> is None, <<n>> the integer n
None == <<>>

Some(n) == <<n>>

\* the modify part of update_progress, on the dict prog it has read
update_progress_modifyMutant(prog, completed, failed) ==
    LET p1 == IF completed # None
              THEN [prog EXCEPT !.completed = @ + Head(completed)]
              ELSE prog
    IN  IF failed # None THEN [p1 EXCEPT !.failed = @ + Head(failed)] ELSE p1

\* an update_progress that forgets the total it read
update_progress_modifyResetMutant(prog, completed, failed) ==
    LET p1 == IF completed # None
              THEN ("completed" :> Head(completed)) @@ prog
              ELSE prog
        p2 == IF failed # None THEN ("failed" :> Head(failed)) @@ p1 ELSE p1
    IN  ("total" :> 0) @@ p2

\* prog['completed'] = completed adds the key when prog has none
update_progress_modify(prog, completed, failed) ==
    LET p1 == IF completed # None
              THEN ("completed" :> Head(completed)) @@ prog
              ELSE prog
    IN  IF failed # None THEN ("failed" :> Head(failed)) @@ p1 ELSE p1


\* Task(project_id, task_type, status='PENDING') with the column defaults
NewTaskMutant == [status |-> "RUNNING", progress |-> <<>>, error_message |-> "",
                  completed_at |-> FALSE]

NewTask == [status |-> "PENDING", progress |-> <<>>, error_message |-> "",
            completed_at |-> FALSE]

(* ------------- controllers/material_controller.py ---------------------- *)

\* a MaterialProgress with no page to generate
MaterialProgressMutant == [total |-> 0, completed |-> 0, failed |-> 0]

\* the progress record generate_material_image gives a new Task
MaterialProgress == [total |-> 1, completed |-> 0, failed |-> 0]

\* _is_valid_ratio: value.split(':', 1) into w, h with int(w) > 0 and
\* int(h) > 0.  A ratio text is the tuple of its parts; a part is <<n>> when
\* int() reads it as n and <<>> when int() raises.  Anything but two parts
\* raises at the unpacking.
_is_valid_ratio(value) ==
    /\ Len(value) = 2
    /\ value[1] # <<>> /\ value[2] # <<>>
    /\ Head(value[1]) > 0 /\ Head(value[2]) > 0

\* request inputs: project_id, prompt, aspect_ratio, mode, ref_image, extra_images
ProjectInputs == {"none", "known", "unknown"}
PromptInputs == {"", "prompt"}
AspectInputs == {<<>>, << <<4>>, <<3>> >>, << <<0>>, <<3>> >>, << <<16>> >>,
                 << <<4>>, <<>> >>}
ModeInputs == {"", "product_replace"}

\* the response of the validation part (lines 155-212), 0 when it passes
ValidationStatus(project, prompt, aspect, mode, hasRef, hasExtra) ==
    IF project = "unknown" THEN 404
    ELSE IF prompt = "" THEN 400
    ELSE IF aspect # <<>> /\ ~_is_valid_ratio(aspect) THEN 400
    ELSE IF mode = "product_replace" /\ ~hasRef THEN 400
    ELSE IF mode = "product_replace" /\ ~hasExtra THEN 400
    ELSE 0

\* lines 155-216: validation, then get_ai_service() and FileService(), which
\* may raise into the outer handler (rollback, 503)
HandlerValidate(r) ==
    /\ hpc[r] = "start"
    /\ \E project \in ProjectInputs, prompt \in PromptInputs,
          aspect \in AspectInputs, mode \in ModeInputs,
          hasRef \in BOOLEAN, hasExtra \in BOOLEAN, servicesOk \in BOOLEAN :
         LET st == ValidationStatus(project, prompt, aspect, mode, hasRef, hasExtra)
         IN  IF st # 0
             THEN /\ resp' = [resp EXCEPT ![r] = st]
                  /\ hpc' = [hpc EXCEPT ![r] = "done"]
             ELSE IF ~servicesOk
             THEN /\ resp' = [resp EXCEPT ![r] = 503]
                  /\ hpc' = [hpc EXCEPT ![r] = "done"]
             ELSE /\ resp' = resp
                  /\ hpc' = [hpc EXCEPT ![r] = "mkdtemp"]
    /\ UNCHANGED <<tempdirs, tasks, wpc, active, submits, rejected, sub, local, lock>>
    /\ UNCHANGED <<imgVars, genVars, extVars>>

\* line 219: tempfile.mkdtemp; a failure goes to the outer handler
HandlerMkdtemp(r) ==
    /\ hpc[r] = "mkdtemp"
    /\ \/ /\ tempdirs' = tempdirs \cup {r}
          /\ hpc' = [hpc EXCEPT ![r] = "stage"]
          /\ resp' = resp
       \/ /\ tempdirs' = tempdirs
          /\ hpc' = [hpc EXCEPT ![r] = "done"]
          /\ resp' = [resp EXCEPT ![r] = 503]
    /\ UNCHANGED <<tasks, wpc, active, submits, rejected, sub, local, lock>>
    /\ UNCHANGED <<imgVars, genVars, extVars>>

\* lines 283-291: the inner handler removes the directory and re-raises, the
\* outer one rolls the session back (nothing uncommitted is kept) and
\* answers 503
HandlerErrorMutant(r) ==
    /\ tempdirs' = tempdirs
    /\ resp' = [resp EXCEPT ![r] = 503]
    /\ hpc' = [hpc EXCEPT ![r] = "done"]

HandlerError(r) ==
    /\ tempdirs' = tempdirs \ {r}
    /\ resp' = [resp EXCEPT ![r] = 503]
    /\ hpc' = [hpc EXCEPT ![r] = "done"]

\* lines 222-241: the reference files are saved into the directory
HandlerStage(r) ==
    /\ hpc[r] = "stage"
    /\ \/ /\ hpc' = [hpc EXCEPT ![r] = "create"]
          /\ UNCHANGED <<resp, tempdirs>>
       \/ HandlerError(r)
    /\ UNCHANGED <<tasks, wpc, active, submits, rejected, sub, local, lock>>
    /\ UNCHANGED <<imgVars, genVars, extVars>>

\* lines 243-255: Task(...), set_progress, add, commit; a failed commit
\* leaves no row
HandlerCreateTask(r) ==
    /\ hpc[r] = "create"
    /\ \/ /\ tasks' = tasks @@ (r :> set_progress(NewTask, MaterialProgress))
          /\ hpc' = [hpc EXCEPT ![r] = "submit"]
          /\ UNCHANGED <<resp, tempdirs>>
       \/ /\ HandlerError(r)
          /\ tasks' = tasks
    /\ UNCHANGED <<wpc, active, submits, rejected, sub, local, lock>>
    /\ UNCHANGED <<imgVars, genVars, extVars>>

(* ---- services/task_manager.py: not in the tree, from the design -------- *)

\* the summarized message recorded for an error that escaped the work body
ErrorSummary == "error"

\* transition_to_terminal(job_id, success, error_message)
transition_to_terminal(task, success, message) ==
    [task EXCEPT !.status = IF success THEN "COMPLETED" ELSE "FAILED",
                 !.error_message = IF success THEN task.error_message ELSE message,
                 !.completed_at = TRUE]

\* submit: the pool accepts the work, which is queued under the job id
SubmitAccepted(j) ==
    /\ active' = [active EXCEPT ![j] = @ + 1]
    /\ submits' = [submits EXCEPT ![j] = @ + 1]
    /\ wpc' = [wpc EXCEPT ![j] = "queued"]
    /\ UNCHANGED <<tasks, rejected>>

\* submit: the pool cannot accept the work; the rejection is reported through
\* the Job's error state, synchronously, and raised to the caller
SubmitRejectedMutant(j) ==
    /\ rejected' = rejected \cup {j}
    /\ UNCHANGED <<tasks, active, submits, wpc>>

SubmitRejected(j) ==
    /\ tasks' = [tasks EXCEPT ![j] = transition_to_terminal(@, FALSE, ErrorSummary)]
    /\ rejected' = rejected \cup {j}
    /\ UNCHANGED <<active, submits, wpc>>

(* ------------- controllers/material_controller.py ---------------------- *)

\* lines 277-281: once submit_task has returned, the handler goes on to
\* return the response; the work is submitted once
HandlerSubmittedMutant(r) ==
    /\ hpc' = hpc
    /\ UNCHANGED <<resp, tempdirs>>

HandlerSubmitted(r) ==
    /\ hpc' = [hpc EXCEPT ![r] = "respond"]
    /\ UNCHANGED <<resp, tempdirs>>

\* lines 257-275: task_manager.submit_task(task.id, ...); when it raises,
\* lines 283-291
HandlerSubmit(r) ==
    /\ hpc[r] = "submit"
    /\ \/ /\ SubmitAccepted(r)
          /\ HandlerSubmitted(r)
       \/ /\ SubmitRejected(r)
          /\ HandlerError(r)
    /\ UNCHANGED <<sub, local, lock>>
    /\ UNCHANGED <<imgVars, genVars, extVars>>

\* lines 277-281: 202 with the task id and status PENDING
HandlerRespond(r) ==
    /\ hpc[r] = "respond"
    /\ resp' = [resp EXCEPT ![r] = 202]
    /\ hpc' = [hpc EXCEPT ![r] = "done"]
    /\ UNCHANGED <<tempdirs, tasks, wpc, active, submits, rejected, sub, local, lock>>
    /\ UNCHANGED <<imgVars, genVars, extVars>>

Handler(r) ==
    \/ HandlerValidate(r)
    \/ HandlerMkdtemp(r)
    \/ HandlerStage(r)
    \/ HandlerCreateTask(r)
    \/ HandlerSubmit(r)
    \/ HandlerRespond(r)

(* ---- services/task_manager.py: not in the tree, from the design -------- *)

Total(j) == get_progress(tasks[j]).total

\* create(kind, owner_scope) for a batch job of n sub-steps, then submit
CreateBatch(j, n) ==
    /\ j \notin DOMAIN tasks
    /\ hpc[j] = "start"
    /\ tasks' = tasks @@
           (j :> set_progress(NewTask, [total |-> n, completed |-> 0, failed |-> 0]))
    /\ active' = [active EXCEPT ![j] = @ + 1]
    /\ submits' = [submits EXCEPT ![j] = @ + 1]
    /\ wpc' = [wpc EXCEPT ![j] = "queued"]
    /\ hpc' = [hpc EXCEPT ![j] = "done"]
    /\ UNCHANGED <<resp, tempdirs, rejected, sub, local, lock>>
    /\ UNCHANGED <<imgVars, genVars, extVars>>

\* transition_to_running(job_id): the worker picks the work up
WorkerStart(j) ==
    /\ wpc[j] = "queued"
    /\ wpc' = [wpc EXCEPT ![j] = "running"]
    /\ tasks' = [tasks EXCEPT ![j].status = "RUNNING"]
    /\ UNCHANGED <<hpc, resp, tempdirs, active, submits, rejected, sub, local, lock>>
    /\ UNCHANGED <<imgVars, genVars, extVars>>

\* a sub-step of the running job ends, in success or in a classified failure
SubStepRun(j, k) ==
    /\ wpc[j] = "running"
    /\ k <= Total(j)
    /\ sub[j][k] = "idle"
    /\ \E outcome \in {"ok", "fail"} : sub' = [sub EXCEPT ![j][k] = outcome]
    /\ UNCHANGED <<hpc, resp, tempdirs, tasks, wpc, active, submits, rejected,
                   local, lock>>
    /\ UNCHANGED <<imgVars, genVars, extVars>>

\* the serialization discipline of the progress counters: one guarded
\* mutation site per job
ProgressGuardMutant(j) == TRUE

ProgressGuard(j) == lock[j] = 0

(* ---------------------- backend/models/task.py ------------------------- *)

\* update_progress, line 46: prog = self.get_progress()
UpdateProgressRead(j, k) ==
    /\ wpc[j] = "running"
    /\ sub[j][k] \in {"ok", "fail"}
    /\ ProgressGuard(j)
    /\ lock' = [lock EXCEPT ![j] = k]
    /\ local' = [local EXCEPT ![j][k] = get_progress(tasks[j])]
    /\ sub' = [sub EXCEPT ![j][k] = IF @ = "ok" THEN "ok_read" ELSE "fail_read"]
    /\ UNCHANGED <<hpc, resp, tempdirs, tasks, wpc, active, submits, rejected>>
    /\ UNCHANGED <<imgVars, genVars, extVars>>

\* update_progress, lines 47-51, called with the counter of this sub-step's
\* outcome one above the value read, the other argument None
UpdateProgressWrite(j, k) ==
    /\ wpc[j] = "running"
    /\ sub[j][k] \in {"ok_read", "fail_read"}
    /\ LET prog == local[j][k]
           new == IF sub[j][k] = "ok_read"
                  THEN update_progress_modify(prog, Some(prog.completed + 1), None)
                  ELSE update_progress_modify(prog, None, Some(prog.failed + 1))
       IN  tasks' = [tasks EXCEPT ![j] = set_progress(@, new)]
    /\ lock' = [lock EXCEPT ![j] = 0]
    /\ local' = [local EXCEPT ![j][k] = ZeroProgress]
    /\ sub' = [sub EXCEPT ![j][k] = IF @ = "ok_read" THEN "ok_done" ELSE "fail_done"]
    /\ UNCHANGED <<hpc, resp, tempdirs, wpc, active, submits, rejected>>
    /\ UNCHANGED <<imgVars, genVars, extVars>>

(* ---- services/task_manager.py: not in the tree, from the design -------- *)

\* an error escapes the work body
WorkBodyRaise(j) ==
    /\ wpc[j] = "running"
    /\ lock[j] = 0
    /\ wpc' = [wpc EXCEPT ![j] = "raised"]
    /\ UNCHANGED <<hpc, resp, tempdirs, tasks, active, submits, rejected,
                   sub, local, lock>>
    /\ UNCHANGED <<imgVars, genVars, extVars>>

\* the wrapper around the work catches it, records it and fails the job
CatchAndFailMutant(j) ==
    /\ wpc[j] = "raised"
    /\ wpc' = [wpc EXCEPT ![j] = "finalize"]
    /\ UNCHANGED <<hpc, resp, tempdirs, tasks, active, submits, rejected,
                   sub, local, lock>>
    /\ UNCHANGED <<imgVars, genVars, extVars>>

CatchAndFail(j) ==
    /\ wpc[j] = "raised"
    /\ tasks' = [tasks EXCEPT ![j] = transition_to_terminal(@, FALSE, ErrorSummary)]
    /\ wpc' = [wpc EXCEPT ![j] = "finalize"]
    /\ UNCHANGED <<hpc, resp, tempdirs, active, submits, rejected, sub, local, lock>>
    /\ UNCHANGED <<imgVars, genVars, extVars>>

\* every sub-step has reported: the job fails only if no sub-step succeeded
WorkerFinish(j) ==
    /\ wpc[j] = "running"
    /\ \A k \in 1..Total(j) : sub[j][k] \in {"ok_done", "fail_done"}
    /\ LET success == \E k \in 1..Total(j) : sub[j][k] = "ok_done"
       IN  tasks' = [tasks EXCEPT ![j] = transition_to_terminal(@, success, ErrorSummary)]
    /\ wpc' = [wpc EXCEPT ![j] = "finalize"]
    /\ UNCHANGED <<hpc, resp, tempdirs, active, submits, rejected, sub, local, lock>>
    /\ UNCHANGED <<imgVars, genVars, extVars>>

\* the worker reclaims the scratch directory on every exit path
WorkerCleanup(j) ==
    /\ wpc[j] = "finalize"
    /\ tempdirs' = tempdirs \ {j}
    /\ active' = [active EXCEPT ![j] = @ - 1]
    /\ wpc' = [wpc EXCEPT ![j] = "done"]
    /\ UNCHANGED <<hpc, resp, tasks, submits, rejected, sub, local, lock>>
    /\ UNCHANGED <<imgVars, genVars, extVars>>

Worker(j) ==
    \/ WorkerStart(j)
    \/ \E k \in Steps : SubStepRun(j, k)
    \/ \E k \in Steps : UpdateProgressRead(j, k)
    \/ \E k \in Steps : UpdateProgressWrite(j, k)
    \/ WorkBodyRaise(j)
    \/ CatchAndFail(j)
    \/ WorkerFinish(j)
    \/ WorkerCleanup(j)

(* ------- services/ai_providers/image/openai_provider.py ---------------- *)

\* a response without Retry-After header
NoHeader == [present |-> FALSE, parses |-> FALSE, value |-> 0, finite |-> TRUE]

\* no request has been sent yet
NoOutcome == [kind |-> "none", status |-> 0, message |-> {}, vi |-> 0,
              json |-> FALSE, retry_after |-> NoHeader]

\* no exception has been raised
NoError == [kind |-> "none", status |-> 0, message |-> {}, hint |-> ""]

\* An error message, lowercased, is the set of the marker texts it contains:
\* "non-pictorial vocabulary", "content has been flagged", "flagged",
\* "content", "policy", "no available channels", "no available channel".

\* the error messages the backend is given to answer with; {} is also the
\* message of a body that is no JSON
Messages == {{},
             {"policy"},
             {"content has been flagged", "flagged", "content"},
             {"no available channels", "no available channel"}}

_looks_like_no_channels_error(message) ==
    ("no available channels" \in message) \/ ("no available channel" \in message)

_looks_like_prompt_rejected(message) ==
    \/ "non-pictorial vocabulary" \in message
    \/ "content has been flagged" \in message
    \/ ("flagged" \in message /\ "content" \in message)
    \/ ("policy" \in message /\ "content" \in message)

\* A text is the sequence of its lines, a line is one of:
\*   "blank"       white space only
\*   "persona"     a line that starts with "you are "
\*   "meta"        a line with "markdown", a section name or a prohibition word
\*   "bullet"      bullet characters only
\*   "text"        a pictorial line
\*   "bullet_text" a bullet followed by the pictorial line "text"
\*   "page"        <page_description>desc</page_description>, desc pictorial
\*   "page_meta"   <page_description>...</page_description> around a "meta" text
\*   "desc"        the pictorial line inside "page"
\*   "base"        the one-line poster prompt of _build_seedream_fallback_prompt
\* and the empty text is <<>>.
RECURSIVE StripLeft(_)
StripLeft(text) ==
    IF text # <<>> /\ Head(text) = "blank" THEN StripLeft(Tail(text)) ELSE text

RECURSIVE StripRight(_)
StripRight(text) ==
    IF text # <<>> /\ text[Len(text)] = "blank"
    THEN StripRight(SubSeq(text, 1, Len(text) - 1))
    ELSE text

\* str(prompt_variant or "").strip(): leading and trailing white space goes
Strip(text) == StripRight(StripLeft(text))

\* lines 141-161: what the loop appends for one line, <<>> when it drops it
SanitizeLine(line) ==
    CASE line \in {"blank", "persona", "meta", "bullet", "page_meta"} -> <<>>
      [] line = "bullet_text" -> <<"text">>
      [] line = "page" -> <<"desc">>
      [] OTHER -> <<line>>

\* lines 126-168 (the truncation to max_chars, which leaves a text that is
\* not empty not empty, is left out)
RECURSIVE _sanitize_images_api_prompt(_)
_sanitize_images_api_prompt(prompt) ==
    IF prompt = <<>> THEN <<>>
    ELSE SanitizeLine(Head(prompt)) \o _sanitize_images_api_prompt(Tail(prompt))

\* lines 179-189: the first page description of the prompt, sanitized
RECURSIVE PageDescription(_)
PageDescription(prompt) ==
    IF prompt = <<>> THEN <<>>
    ELSE IF Head(prompt) = "page" THEN _sanitize_images_api_prompt(<<"desc">>)
    ELSE IF Head(prompt) = "page_meta" THEN _sanitize_images_api_prompt(<<"meta">>)
    ELSE PageDescription(Tail(prompt))

\* lines 171-198
_build_seedream_fallback_prompt(prompt) ==
    IF prompt = <<>> THEN <<>> ELSE <<"base">> \o PageDescription(prompt)

\* the prompts a call is given
Prompts ==
    {<<>>,
     <<"blank">>,
     <<"meta">>,
     <<"base">>,
     <<"page", "bullet_text">>,
     <<"page_meta", "persona">>}

\* a prompt with the texts the two rewrites make of it
PromptCases ==
    {[raw |-> p,
      san |-> _sanitize_images_api_prompt(p),
      fb  |-> _build_seedream_fallback_prompt(p)] : p \in Prompts}

InSeq(x, seq) == \E i \in 1..Len(seq) : seq[i] = x

\* lines 238-248: the ordered list of prompt variants
BuildPromptVariantsMutant(is_yunwu, is_seedream, p) ==
    LET v1 == IF is_yunwu /\ p.san # <<>> THEN <<p.san>> ELSE <<>>
        v2 == IF is_yunwu /\ is_seedream /\ p.fb # <<>> /\ ~InSeq(p.fb, v1)
              THEN Append(v1, p.fb) ELSE v1
    IN  IF v2 = <<>> THEN <<p.raw>> ELSE v2

BuildPromptVariants(is_yunwu, is_seedream, p) ==
    LET v1 == IF is_yunwu /\ is_seedream /\ p.fb # <<>> THEN <<p.fb>> ELSE <<>>
        v2 == IF is_yunwu /\ p.san # <<>> /\ ~InSeq(p.san, v1)
              THEN Append(v1, p.san) ELSE v1
    IN  IF v2 = <<>> THEN <<p.raw>> ELSE v2

\* line 260: max_attempts = max(configured_retries + 1, 5)
MinAttempts == 5

max_attemptsMutant == IF configured > MinAttempts THEN configured ELSE MinAttempts

max_attemptsExtraMutant ==
    (IF configured + 1 > MinAttempts THEN configured + 1 ELSE MinAttempts) + 1

max_attempts == IF configured + 1 > MinAttempts THEN configured + 1 ELSE MinAttempts

\* the values OPENAI_MAX_RETRIES is configured with
ConfiguredRetries == {0, MaxConfiguredRetries}

BackoffBase == 2
TransportBackoffCap == 20
StatusBackoffCap == 30

Min(a, b) == IF a <= b THEN a ELSE b

\* lines 281 and 318: min(2.0 * (2 ** (attempt - 1)), cap)
BackoffMutant(a, cap) == BackoffBase * (2 ^ (a - 1))

Backoff(a, cap) == Min(BackoffBase * (2 ^ (a - 1)), cap)

\* a Retry-After header: absent, or a text float() reads or not; float()
\* also reads "nan" and "inf", which are no time to sleep
RetryAfterHeaders ==
    {NoHeader,
     [present |-> TRUE,  parses |-> FALSE, value |-> 0,  finite |-> TRUE],
     [present |-> TRUE,  parses |-> TRUE,  value |-> 0,  finite |-> TRUE],
     [present |-> TRUE,  parses |-> TRUE,  value |-> 3,  finite |-> TRUE],
     [present |-> TRUE,  parses |-> TRUE,  value |-> 45, finite |-> TRUE],
     [present |-> TRUE,  parses |-> TRUE,  value |-> 0,  finite |-> FALSE]}

\* lines 310-316: wait read from the header, 0.0 when absent or unreadable
RetryAfterWait(h) == IF h.present /\ h.parses THEN h.value ELSE 0

\* lines 314-317 and 328: float() gave nan or inf, "wait <= 0" is false and
\* time.sleep(wait) raises ValueError or OverflowError
SleepRaises(h) == h.present /\ h.parses /\ ~h.finite

RetryStatuses == {429, 500, 502, 503, 504}

Statuses == {200, 400, 401, 403, 404} \cup RetryStatuses

\* the index of the first variant after i whose stripped text is not empty
\* (lines 266-269), 0 when the loop runs out
NextVariant(i) ==
    LET rest == {k \in (i + 1)..Len(prompt_variants) : Strip(prompt_variants[k]) # <<>>}
    IN  IF rest = {} THEN 0 ELSE CHOOSE k \in rest : \A m \in rest : k <= m

\* lines 227-275: the call builds its variants and enters the loops; with
\* no variant to send, lines 341-342 raise
EnterLoop ==
    /\ ipc = "call"
    /\ LET k == NextVariant(0)
       IN  IF k = 0
           THEN /\ ipc' = "raised"
                /\ error' = [NoError EXCEPT !.kind = "no_response"]
                /\ UNCHANGED <<vi, attempt, allTransient>>
           ELSE /\ ipc' = "post"
                /\ vi' = k
                /\ attempt' = 1
                /\ allTransient' = TRUE
                /\ error' = error
    /\ UNCHANGED <<configured, prompt_variants, nreq, last, wait, hinted,
                   given, last_error_message>>
    /\ UNCHANGED <<jobVars, genVars, extVars>>

\* lines 357-367: the hint of the error of a response
StatusHint(status, message) ==
    CASE status = 401 -> "api_key"
      [] status = 403 -> "permission"
      [] status = 404 -> "endpoint"
      [] status = 503 /\ _looks_like_no_channels_error(message) -> "no_channels"
      [] _looks_like_prompt_rejected(message) -> "prompt_rejected"
      [] OTHER -> ""

\* lines 344-372: the exception raised for the response r of status >= 400,
\* lem being last_error_message: HTTPError of raise_for_status for a body
\* that is no JSON, the fixed text for 429, else status, hint and message
ResponseErrorMutant(r, lem) ==
    [kind |-> "http", status |-> r.status, message |-> {}, hint |-> ""]

ResponseError(r, lem) ==
    IF ~r.json
    THEN [kind |-> "http", status |-> r.status, message |-> {}, hint |-> ""]
    ELSE IF r.status = 429
    THEN [kind |-> "http", status |-> 429, message |-> {}, hint |-> "rate_limit"]
    ELSE LET message == IF r.message # {} THEN r.message ELSE lem
         IN  [kind |-> "http", status |-> r.status, message |-> message,
              hint |-> StatusHint(r.status, message)]

\* lines 332-339 and 341-372: the attempts of variant vi are over, without
\* a sleep, on a response of this status
AfterAttemptsResendMutant(status, prompt_rejected) ==
    /\ wait' = 0
    /\ hinted' = FALSE
    /\ IF status < 400
       THEN /\ ipc' = IF attempt < max_attempts THEN "post" ELSE "decode"
            /\ attempt' = IF attempt < max_attempts THEN attempt + 1 ELSE attempt
            /\ UNCHANGED <<vi, error>>
       ELSE IF prompt_rejected /\ NextVariant(vi) # 0
       THEN /\ ipc' = "post"
            /\ vi' = NextVariant(vi)
            /\ attempt' = 1
            /\ error' = error
       ELSE /\ ipc' = "raised"
            /\ error' = ResponseError(last', last_error_message')
            /\ UNCHANGED <<vi, attempt>>

AfterAttemptsAdvanceMutant(status, prompt_rejected) ==
    /\ wait' = 0
    /\ hinted' = FALSE
    /\ IF status < 400
       THEN /\ ipc' = "decode"
            /\ UNCHANGED <<vi, attempt, error>>
       ELSE IF NextVariant(vi) # 0
       THEN /\ ipc' = "post"
            /\ vi' = NextVariant(vi)
            /\ attempt' = 1
            /\ error' = error
       ELSE /\ ipc' = "raised"
            /\ error' = ResponseError(last', last_error_message')
            /\ UNCHANGED <<vi, attempt>>

AfterAttemptsKeepCountMutant(status, prompt_rejected) ==
    /\ wait' = 0
    /\ hinted' = FALSE
    /\ IF status < 400
       THEN /\ ipc' = "decode"
            /\ UNCHANGED <<vi, attempt, error>>
       ELSE IF prompt_rejected /\ NextVariant(vi) # 0
       THEN /\ ipc' = "post"
            /\ vi' = NextVariant(vi)
            /\ attempt' = attempt
            /\ error' = error
       ELSE /\ ipc' = "raised"
            /\ error' = ResponseError(last', last_error_message')
            /\ UNCHANGED <<vi, attempt>>

AfterAttemptsSleepMutant(status, prompt_rejected) ==
    /\ wait' = BackoffBase
    /\ hinted' = FALSE
    /\ IF status < 400
       THEN /\ ipc' = "decode"
            /\ UNCHANGED <<vi, attempt, error>>
       ELSE IF prompt_rejected /\ NextVariant(vi) # 0
       THEN /\ ipc' = "post"
            /\ vi' = NextVariant(vi)
            /\ attempt' = 1
            /\ error' = error
       ELSE /\ ipc' = "raised"
            /\ error' = ResponseError(last', last_error_message')
            /\ UNCHANGED <<vi, attempt>>

AfterAttempts(status, prompt_rejected) ==
    /\ wait' = 0
    /\ hinted' = FALSE
    /\ IF status < 400
       THEN /\ ipc' = "decode"
            /\ UNCHANGED <<vi, attempt, error>>
       ELSE IF prompt_rejected /\ NextVariant(vi) # 0
       THEN /\ ipc' = "post"
            /\ vi' = NextVariant(vi)
            /\ attempt' = 1
            /\ error' = error
       ELSE /\ ipc' = "raised"
            /\ error' = ResponseError(last', last_error_message')
            /\ UNCHANGED <<vi, attempt>>

\* lines 279-290 and 309-329: time.sleep(w), then the next attempt
SleepAndRetry(w, fromHeader) ==
    /\ ipc' = "post"
    /\ wait' = w
    /\ hinted' = fromHeader
    /\ attempt' = attempt + 1
    /\ vi' = vi
    /\ error' = error

\* line 328: time.sleep raises on the value float() read from Retry-After
SleepFails ==
    /\ ipc' = "raised"
    /\ error' = [NoError EXCEPT !.kind = "sleep"]
    /\ wait' = 0
    /\ hinted' = FALSE
    /\ UNCHANGED <<vi, attempt>>

\* line 300: the rejection that ends the attempts of a variant
IsPromptRejectionMutant(status, message) ==
    status \in {429, 500, 502, 503, 504} /\ _looks_like_prompt_rejected(message)

IsPromptRejection(status, message) ==
    status = 500 /\ _looks_like_prompt_rejected(message)

\* whether the attempts of a variant that start after this end are still
\* all plain transient failures
StillTransient(status, message) ==
    /\ status \in RetryStatuses
    /\ ~_looks_like_prompt_rejected(message)

\* lines 276-290: requests.post raises requests.RequestException
RequestError ==
    /\ ipc = "post"
    /\ last' = [kind |-> "transport", status |-> 0, message |-> {}, vi |-> vi,
                json |-> FALSE, retry_after |-> NoHeader]
    /\ nreq' = [nreq EXCEPT ![vi] = @ + 1]
    /\ allTransient' = FALSE
    /\ IF attempt >= max_attempts
       THEN /\ ipc' = "raised"
            /\ error' = [NoError EXCEPT !.kind = "transport"]
            /\ wait' = 0
            /\ hinted' = FALSE
            /\ UNCHANGED <<vi, attempt>>
       ELSE SleepAndRetry(Backoff(attempt, TransportBackoffCap), FALSE)
    /\ UNCHANGED <<configured, prompt_variants, given, last_error_message>>
    /\ UNCHANGED <<jobVars, genVars, extVars>>

\* lines 276-277 and 292-339: requests.post returns a response; its body is
\* JSON or not, and only a JSON body has an error message
RequestResponse ==
    /\ ipc = "post"
    /\ \E status \in Statuses, message \in Messages, json \in BOOLEAN,
          header \in RetryAfterHeaders :
         /\ message # {} => json
         /\ status < 400 => (message = {} /\ ~header.present)
         /\ (status \notin RetryStatuses \/ attempt >= max_attempts) => ~header.present
         /\ last' = [kind |-> "http", status |-> status, message |-> message,
                     vi |-> vi, json |-> json, retry_after |-> header]
         /\ nreq' = [nreq EXCEPT ![vi] = @ + 1]
         /\ IF status \in RetryStatuses
            THEN /\ last_error_message' = message
                 /\ IF IsPromptRejection(status, message)
                    THEN /\ AfterAttempts(status, TRUE)
                         /\ allTransient' = (NextVariant(vi) # 0)
                    ELSE IF attempt < max_attempts
                    THEN IF SleepRaises(header)
                         THEN /\ SleepFails
                              \* the call ends on time.sleep, not on the budget
                              /\ allTransient' = FALSE
                         ELSE /\ allTransient' =
                                    (allTransient /\ StillTransient(status, message))
                              /\ IF RetryAfterWait(header) <= 0
                                 THEN SleepAndRetry(Backoff(attempt, StatusBackoffCap), FALSE)
                                 ELSE SleepAndRetry(RetryAfterWait(header), TRUE)
                    ELSE /\ allTransient' =
                               (allTransient /\ StillTransient(status, message))
                         /\ AfterAttempts(status, FALSE)
            ELSE /\ last_error_message' = last_error_message
                 /\ allTransient' = FALSE
                 /\ AfterAttempts(status, FALSE)
    /\ UNCHANGED <<configured, prompt_variants, given>>
    /\ UNCHANGED <<jobVars, genVars, extVars>>

\* what the body of a response below 400 holds
Payloads == {"b64_image", "url_image", "b64_corrupt", "url_unfetchable",
             "url_corrupt", "no_image_field", "empty_data", "not_a_dict"}

\* lines 374-400: an image is returned for inline bytes that load and for a
\* URL whose content is fetched and loads; everything else raises
Decodes(payload) == payload \in {"b64_image", "url_image"}

\* lines 344-400: the body of the response below 400 gives an image, or the
\* call raises
Decode ==
    /\ ipc = "decode"
    /\ \E payload \in Payloads :
         IF last.json /\ Decodes(payload)
         THEN /\ ipc' = "returned"
              /\ error' = error
         ELSE /\ ipc' = "raised"
              /\ error' = [NoError EXCEPT !.kind = "decode", !.status = last.status]
    /\ UNCHANGED <<configured, prompt_variants, vi, attempt, nreq, last, wait,
                   hinted, allTransient, given, last_error_message>>
    /\ UNCHANGED <<jobVars, genVars, extVars>>

\* what a call of _generate_image_via_images_api is given: its configuration,
\* provider, model family and prompt, and the variants it builds
ImagesInputs ==
    /\ configured \in ConfiguredRetries
    /\ \E is_yunwu \in BOOLEAN, is_seedream \in BOOLEAN, p \in PromptCases :
         /\ given = [is_yunwu |-> is_yunwu, is_seedream |-> is_seedream, p |-> p]
         /\ prompt_variants = BuildPromptVariants(is_yunwu, is_seedream, p)
    /\ vi = 0
    /\ attempt = 0
    /\ nreq = [k \in 1..Len(prompt_variants) |-> 0]
    /\ last = NoOutcome
    /\ last_error_message = {}
    /\ wait = 0
    /\ hinted = FALSE
    /\ allTransient = FALSE
    /\ error = NoError

\* a call of _generate_image_via_images_api
ImagesInit ==
    /\ ipc = "call"
    /\ ImagesInputs

ImagesStep ==
    \/ EnterLoop
    \/ RequestError
    \/ RequestResponse
    \/ Decode

ImagesNext == ImagesStep

(* ---------------- OpenAIImageProvider.generate_image ------------------- *)

\* A model name, stripped and lowercased, is the sequence of its parts.
ModelNames ==
    {<<>>,
     <<"gemini">>,
     <<"gemini", "doubao-">>,
     <<"doubao-", "seedream">>,
     <<"doubao-", "gemini">>,
     <<"gpt-image">>,
     <<"dalle-">>}

\* "text in m": the part "dalle-" holds the text "dall"
Contains(m, text) ==
    \E i \in 1..Len(m) : m[i] = text \/ (text = "dall" /\ m[i] = "dalle-")

StartsWith(m, text) == m # <<>> /\ Head(m) = text

\* lines 59-61
_is_seedream_model(m) == Contains(m, "seedream")

\* lines 63-91
_prefers_images_api(m) ==
    IF m = <<>> THEN FALSE
    ELSE \/ Contains(m, "seedream")
         \/ Contains(m, "gpt-image")
         \/ Contains(m, "dall") \/ StartsWith(m, "dalle-")
         \/ StartsWith(m, "doubao-")

\* nothing was raised to the caller of generate_image
NotSurfaced == [from |-> "none", error |-> NoError, friendly_hint |-> FALSE]

\* lines 623-634: generate_image wraps what escaped, with the text of the
\* exception and the hint for a text that tells of no channel
Surface(from, err) ==
    [from |-> from, error |-> err,
     friendly_hint |-> _looks_like_no_channels_error(err.message)]

\* lines 600-601 and 620: _generate_image_via_images_api(prompt, aspect_ratio,
\* resolution) is called; it is given no reference images
CallImagesApi ==
    /\ ipc' = "call"
    /\ images_calls' = images_calls + 1
    /\ UNCHANGED <<configured, prompt_variants, vi, attempt, nreq, last, wait,
                   hinted, allTransient, given, last_error_message, error>>

\* lines 590-601: routing by the model name
GenerateRoute ==
    /\ gpc = "start"
    /\ IF _prefers_images_api(model)
       THEN /\ gpc' = "images"
            /\ CallImagesApi
       ELSE /\ gpc' = "chat"
            /\ UNCHANGED <<imgVars, images_calls>>
    /\ UNCHANGED <<model, ref_images, chat_calls, chat_refs, chat_failure, surfaced>>
    /\ UNCHANGED <<jobVars, extVars>>

\* line 613: the failure of the chat call that the Images API is tried for
FallsBackToImagesMutant(text) == FALSE

FallsBackToImages(text) ==
    ~_prefers_images_api(model) /\ _looks_like_no_channels_error(text)

\* lines 609-621: _generate_image_via_chat_completions(prompt, ref_images,
\* ...) returns an image or raises an exception with some text
ChatCall ==
    /\ gpc = "chat"
    /\ chat_calls' = chat_calls + 1
    /\ chat_refs' = (chat_refs \/ ref_images)
    /\ \/ /\ gpc' = "returned"
          /\ UNCHANGED <<imgVars, images_calls, chat_failure, surfaced>>
       \/ \E text \in Messages :
            /\ chat_failure' = <<text>>
            /\ IF FallsBackToImages(text)
               THEN /\ gpc' = "images"
                    /\ CallImagesApi
                    /\ surfaced' = surfaced
               ELSE /\ gpc' = "raised"
                    /\ surfaced' = Surface("chat", [NoError EXCEPT !.kind = "chat",
                                                                    !.message = text])
                    /\ UNCHANGED <<imgVars, images_calls>>
    /\ UNCHANGED <<model, ref_images>>
    /\ UNCHANGED <<jobVars, extVars>>

\* line 601 and line 620: the Images API call returned an image
ImagesReturned ==
    /\ gpc = "images"
    /\ ipc = "returned"
    /\ gpc' = "returned"
    /\ UNCHANGED <<model, ref_images, images_calls, chat_calls, chat_refs,
                   chat_failure, surfaced>>
    /\ UNCHANGED <<jobVars, imgVars, extVars>>

\* lines 602-610: the exception of the Images API call the routing chose is
\* logged and the chat call follows; line 620: the exception of the fallback
\* call escapes to lines 623-634
ImagesRaisedNoneMutant ==
    /\ gpc = "images"
    /\ ipc = "raised"
    /\ gpc' = IF _prefers_images_api(model) THEN "chat" ELSE "returned"
    /\ UNCHANGED <<model, ref_images, images_calls, chat_calls, chat_refs,
                   chat_failure, surfaced>>
    /\ UNCHANGED <<jobVars, imgVars, extVars>>

ImagesRaisedRetryChatMutant ==
    /\ gpc = "images"
    /\ ipc = "raised"
    /\ gpc' = "chat"
    /\ UNCHANGED <<model, ref_images, images_calls, chat_calls, chat_refs,
                   chat_failure, surfaced>>
    /\ UNCHANGED <<jobVars, imgVars, extVars>>

ImagesRaised ==
    /\ gpc = "images"
    /\ ipc = "raised"
    /\ IF _prefers_images_api(model)
       THEN /\ gpc' = "chat"
            /\ surfaced' = surfaced
       ELSE /\ gpc' = "raised"
            /\ surfaced' = Surface("images", error)
    /\ UNCHANGED <<model, ref_images, images_calls, chat_calls, chat_refs,
                   chat_failure>>
    /\ UNCHANGED <<jobVars, imgVars, extVars>>

GenerateStep ==
    \/ GenerateRoute
    \/ ChatCall
    \/ ImagesReturned
    \/ ImagesRaised
    \/ EnterLoop
    \/ RequestError
    \/ RequestResponse
    \/ Decode

GenerateNext == GenerateStep

\* generate_image is not running
GenerateIdle ==
    /\ gpc = "idle"
    /\ model = <<>>
    /\ ref_images = FALSE
    /\ images_calls = 0
    /\ chat_calls = 0
    /\ chat_refs = FALSE
    /\ chat_failure = <<>>
    /\ surfaced = NotSurfaced

\* the prompts generate_image is called with
GeneratePrompts == {<<>>, <<"page", "bullet_text">>}

\* a call of generate_image on a provider with its model, with the default
\* OPENAI_MAX_RETRIES
GenerateInit ==
    /\ gpc = "start"
    /\ model \in ModelNames
    /\ ref_images \in BOOLEAN
    /\ images_calls = 0
    /\ chat_calls = 0
    /\ chat_refs = FALSE
    /\ chat_failure = <<>>
    /\ surfaced = NotSurfaced
    /\ ipc = "idle"
    /\ ImagesInputs
    /\ given.is_seedream = _is_seedream_model(model)
    /\ configured = 0
    /\ given.p.raw \in GeneratePrompts

(* --------------- backend/models/task.py, one row alone ----------------- *)

\* a dict with some of the keys of a progress record, the empty dict included
Counts == 0..MaxTotal

ProgressKeys == {"total", "completed", "failed"}

ProgressDicts ==
    UNION {[ks -> Counts] : ks \in SUBSET ProgressKeys}

\* what the column may hold when a method is called: NULL, the text
\* set_progress wrote, or a text that is not JSON
ProgressColumns ==
    {<<>>, <<NotJson>>} \cup {<<json_dumps(d)>> : d \in ProgressDicts \ {<<>>}}

NoCall == [op |-> "none", completed |-> None, failed |-> None, data |-> <<>>]

TaskIdle ==
    /\ trow = NewTask
    /\ tcall = NoCall

TaskInit ==
    /\ trow \in {[NewTask EXCEPT !.progress = c] : c \in ProgressColumns}
    /\ tcall = NoCall

\* Task.update_progress(completed, failed), lines 44-51
update_progress(completed, failed) ==
    /\ trow' = set_progress(trow,
                   update_progress_modify(get_progress(trow), completed, failed))
    /\ tcall' = [op |-> "update_progress", completed |-> completed,
                 failed |-> failed, data |-> <<>>]
    /\ UNCHANGED <<jobVars, imgVars, genVars, setVars, fileVars, chatVars>>

\* Task.set_progress(data), lines 37-42
SetProgress(data) ==
    /\ trow' = set_progress(trow, data)
    /\ tcall' = [op |-> "set_progress", completed |-> None, failed |-> None,
                 data |-> data]
    /\ UNCHANGED <<jobVars, imgVars, genVars, setVars, fileVars, chatVars>>

Arguments == {None} \cup {Some(n) : n \in Counts}

TaskStep ==
    \/ \E completed \in Arguments, failed \in Arguments :
           update_progress(completed, failed)
    \/ \E data \in ProgressDicts : SetProgress(data)

TaskNext == TaskStep


(* ------------- controllers/settings_controller.py ---------------------- *)

\* the bounds of both worker counts, lines 94 and 102
MinWorkers == 1

MaxWorkers == 20

\* a field of the request body: <<>> when the key is absent, <<v>> when it is
\* there with value v
Absent == <<>>

\* JSON values a worker field is given: an integer, a number with a
\* fraction (in tenths), or a value int() raises on ("abc", null, NaN)
IntValue(n) == [type |-> "int", n |-> n]

FloatValue(tenths) == [type |-> "float", n |-> tenths]

BadValue == [type |-> "bad", n |-> 0]

\* int(v) raises ValueError or TypeError
IntRaises(v) == v.type = "bad"

\* int(v): the integer itself; a float is truncated toward zero
IntOf(v) ==
    IF v.type = "int" THEN v.n
    ELSE IF v.n >= 0 THEN v.n \div 10 ELSE -((-v.n) \div 10)

WorkerValues ==
    {IntValue(MinWorkers - 1), IntValue(MaxWorkers), IntValue(MaxWorkers + 1),
     FloatValue(10 * MaxWorkers + 5), BadValue}

FormatValues == {"openai", "azure"}

KeyValues == {"sk-key"}

LanguageValues == {"en", "xx"}

Present(values) == {Absent} \cup {<<v>> : v \in values}

Requests ==
    [ai_provider_format : Present(FormatValues),
     api_key : Present(KeyValues),
     max_description_workers : Present(WorkerValues),
     max_image_workers : Present(WorkerValues),
     output_language : Present(LanguageValues)]

NoRequest ==
    [ai_provider_format |-> Absent, api_key |-> Absent,
     max_description_workers |-> Absent, max_image_workers |-> Absent,
     output_language |-> Absent]

\* the row Settings.get_settings() finds: the defaults of Config, in range;
\* api_key is <<>> for None
DefaultSettings ==
    [ai_provider_format |-> "gemini", api_key |-> <<>>,
     max_description_workers |-> MinWorkers, max_image_workers |-> MaxWorkers,
     output_language |-> "zh"]

\* app.config as create_app leaves it: GOOGLE_API_KEY and OPENAI_API_KEY carry
\* the key, <<>> when the keys are not in the mapping
DefaultConfig ==
    [AI_PROVIDER_FORMAT |-> "gemini", API_KEY |-> <<>>,
     MAX_DESCRIPTION_WORKERS |-> MinWorkers, MAX_IMAGE_WORKERS |-> MaxWorkers,
     OUTPUT_LANGUAGE |-> "zh"]

SettingsInit ==
    /\ stored = DefaultSettings
    /\ config = DefaultConfig
    /\ session = <<>>
    /\ sreq = NoRequest
    /\ sresp = 0

\* Settings.get_settings(), line 55: the object of the session when it holds
\* one, attributes as assigned, else the committed row
get_settings == IF session # <<>> THEN Head(session) ELSE stored

\* how far update_settings got: status 0 while it is still running
Running(settings) == [status |-> 0, settings |-> settings]

Returned(status, settings) == [status |-> status, settings |-> settings]

\* lines 58-62
UpdateFormat(st, data) ==
    IF st.status # 0 \/ data.ai_provider_format = Absent THEN st
    ELSE IF Head(data.ai_provider_format) \notin {"openai", "gemini"}
    THEN Returned(400, st.settings)
    ELSE Running([st.settings EXCEPT
                     !.ai_provider_format = Head(data.ai_provider_format)])

\* lines 74-75
UpdateKey(st, data) ==
    IF st.status # 0 \/ data.api_key = Absent THEN st
    ELSE Running([st.settings EXCEPT !.api_key = data.api_key])

\* lines 94 and 102
WorkersRejected(workers) == workers < MinWorkers \/ workers > MaxWorkers

\* lines 92-98; an int() that raises goes to the handler of lines 149-156:
\* rollback, which brings the object back to the committed row, and 500
UpdateDescriptionWorkers(st, data) ==
    IF st.status # 0 \/ data.max_description_workers = Absent THEN st
    ELSE IF IntRaises(Head(data.max_description_workers))
    THEN Returned(500, stored)
    ELSE IF WorkersRejected(IntOf(Head(data.max_description_workers)))
    THEN Returned(400, st.settings)
    ELSE Running([st.settings EXCEPT !.max_description_workers =
                     IntOf(Head(data.max_description_workers))])

\* lines 100-106
UpdateImageWorkers(st, data) ==
    IF st.status # 0 \/ data.max_image_workers = Absent THEN st
    ELSE IF IntRaises(Head(data.max_image_workers))
    THEN Returned(500, stored)
    ELSE IF WorkersRejected(IntOf(Head(data.max_image_workers)))
    THEN Returned(400, st.settings)
    ELSE Running([st.settings EXCEPT !.max_image_workers =
                     IntOf(Head(data.max_image_workers))])

\* lines 124-129
UpdateLanguage(st, data) ==
    IF st.status # 0 \/ data.output_language = Absent THEN st
    ELSE IF Head(data.output_language) \in {"zh", "en", "ja", "auto"}
    THEN Running([st.settings EXCEPT
                     !.output_language = Head(data.output_language)])
    ELSE Returned(400, st.settings)

\* lines 50-139 up to the commit: the status answered and the attributes of
\* the Settings object at that point
Validate(settings, data) ==
    IF data = NoRequest THEN Returned(400, settings)
    ELSE LET st == UpdateLanguage(
                     UpdateImageWorkers(
                       UpdateDescriptionWorkers(
                         UpdateKey(
                           UpdateFormat(Running(settings), data), data), data),
                       data), data)
         IN  IF st.status = 0 THEN Returned(200, st.settings) ELSE st

\* _sync_settings_to_config, lines 295-400
_sync_settings_to_config(settings) ==
    [AI_PROVIDER_FORMAT |-> settings.ai_provider_format,
     API_KEY |-> settings.api_key,
     MAX_DESCRIPTION_WORKERS |-> settings.max_description_workers,
     MAX_IMAGE_WORKERS |-> settings.max_image_workers,
     OUTPUT_LANGUAGE |-> settings.output_language]

\* the end of the request: db.session is the session of Flask-SQLAlchemy,
\* scoped to the application context of the request and removed with it, so
\* what update_settings assigned and did not commit is dropped
TeardownMutant(object) == <<object>>

Teardown(object) == <<>>

\* PUT /api/settings, lines 37-156, as one request
update_settings(data) ==
    LET out == Validate(get_settings, data)
    IN  /\ sreq' = data
        /\ sresp' = out.status
        /\ IF out.status = 200
           THEN /\ stored' = out.settings
                /\ config' = _sync_settings_to_config(out.settings)
           ELSE UNCHANGED <<stored, config>>
        /\ session' = Teardown(out.settings)
        /\ UNCHANGED <<jobVars, imgVars, genVars, taskVars, fileVars, chatVars>>

SettingsStep == \E data \in Requests : update_settings(data)

SettingsNext == SettingsStep


(* ------ controllers/file_controller.py and utils/path_utils.py --------- *)

\* the shortest prefix find_file_with_prefix matches with, line 99
MinPrefix == 5

\* a file name as os.path.splitext splits it: the characters before the
\* extension and the extension without its dot, "" when there is none
Name(stem, ext) == [stem |-> stem, ext |-> ext]

\* the segment '..'
DotDot == Name(<<".", ".">>, "")

\* UPLOAD_FOLDER is /u, its directory of extracts /u/m
Uploads == Name(<<"u">>, "")

MineruFiles == Name(<<"m">>, "")

\* two extracts, the name of the second beginning with the name of the first
ExtractX == Name(<<"x">>, "")

ExtractXY == Name(<<"x", "y">>, "")

\* the file image1.png, a request for its first five characters in other
\* case, and a request for a prefix that is too short
Image == Name(<<"i", "m", "a", "g", "e", "1">>, "png")

ImagePrefix == Name(<<"I", "M", "a", "g", "e">>, "png")

ShortPrefix == Name(<<"i", "m">>, "png")

\* a path is the sequence of its segments; <<>> is /
UploadFolder == <<Uploads>>

\* the trees the disk may hold: the two directories of the application and
\* any of an extract x with a file, an extract xy with a file, and a file
\* of the upload folder itself
Entry(path, kind) == [path |-> path, kind |-> kind]

BaseTree ==
    {Entry(UploadFolder, "dir"), Entry(UploadFolder \o <<MineruFiles>>, "dir")}

OptionalTrees ==
    {{Entry(<<Uploads, MineruFiles, ExtractX>>, "dir"),
      Entry(<<Uploads, MineruFiles, ExtractX, Image>>, "file")},
     {Entry(<<Uploads, MineruFiles, ExtractXY>>, "dir"),
      Entry(<<Uploads, MineruFiles, ExtractXY, Image>>, "file")},
     {Entry(<<Uploads, Image>>, "file")}}

FileSystems == {BaseTree \cup UNION ts : ts \in SUBSET OptionalTrees}

\* what lies at an absolute path without '..': "dir", "file" or "none"
Kind(path) ==
    IF path = <<>> THEN "dir"
    ELSE IF Entry(path, "dir") \in fs THEN "dir"
    ELSE IF Entry(path, "file") \in fs THEN "file"
    ELSE "none"

Parent(path) == IF path = <<>> THEN <<>> ELSE SubSeq(path, 1, Len(path) - 1)

\* Path.resolve() where no segment is a symbolic link: '..' drops the
\* segment before it, whether or not it exists
RECURSIVE ResolveFrom(_, _)
ResolveFrom(done, rest) ==
    IF rest = <<>> THEN done
    ELSE IF Head(rest) = DotDot THEN ResolveFrom(Parent(done), Tail(rest))
    ELSE ResolveFrom(Append(done, Head(rest)), Tail(rest))

Resolve(path) == ResolveFrom(<<>>, path)

\* the lookup of the operating system: every segment is looked up in the
\* directory the segments before it led to; <<>> when a lookup fails, else
\* <<q>> for the place q the path leads to
RECURSIVE WalkFrom(_, _)
WalkFrom(cur, rest) ==
    IF rest = <<>> THEN <<cur>>
    ELSE IF Kind(cur) # "dir" THEN <<>>
    ELSE LET nxt == IF Head(rest) = DotDot THEN Parent(cur)
                    ELSE Append(cur, Head(rest))
         IN  IF Kind(nxt) = "none" THEN <<>> ELSE WalkFrom(nxt, Tail(rest))

Walk(path) == WalkFrom(<<>>, path)

\* Path.exists(), Path.is_file(), Path.is_dir()
Exists(path) == Walk(path) # <<>>

IsFile(path) == Exists(path) /\ Kind(Head(Walk(path))) = "file"

IsDir(path) == Exists(path) /\ Kind(Head(Walk(path))) = "dir"

\* str(path): the characters of the path, a '/' before every segment and a
\* '.' before an extension; the extension counts as one character
RECURSIVE Str(_)
Str(path) ==
    IF path = <<>> THEN <<>>
    ELSE LET n == Head(path)
         IN  <<"/">> \o n.stem
                \o (IF n.ext = "" THEN <<>> ELSE <<".", n.ext>>)
                \o Str(Tail(path))

PathStr(path) == IF path = <<>> THEN <<"/">> ELSE Str(path)

\* str.startswith
startswith(text, prefix) ==
    /\ Len(prefix) <= Len(text)
    /\ SubSeq(text, 1, Len(prefix)) = prefix

\* str.lower
LowerChar(c) == IF c = "I" THEN "i" ELSE IF c = "M" THEN "m" ELSE c

lower(text) == [i \in 1..Len(text) |-> LowerChar(text[i])]

\* os.listdir(dirpath)
listdir(dirpath) ==
    {e.path[Len(e.path)] : e \in {f \in fs : Parent(f.path) = Head(Walk(dirpath))}}

\* find_file_with_prefix(file_path), lines 75-111: the paths it may return,
\* one for each order os.listdir may list the directory in; {} for None
find_file_with_prefix(file_path) ==
    IF IsFile(file_path) THEN {file_path}
    ELSE LET filename == file_path[Len(file_path)]
             dirpath == Parent(file_path)
         IN  IF /\ (filename.ext # "" \/ InSeq(".", filename.stem))
                /\ IsDir(dirpath)
                /\ Len(filename.stem) >= MinPrefix
             THEN {Append(dirpath, fname) : fname \in
                     {f \in listdir(dirpath) :
                        /\ startswith(lower(f.stem), lower(filename.stem))
                        /\ f.ext = filename.ext
                        /\ IsFile(Append(dirpath, f))}}
             ELSE {}

\* the containment test of lines 135 and 150
EscapesRoot(path, root_dir) ==
    ~startswith(PathStr(Resolve(path)), PathStr(Resolve(root_dir)))

NoFile == <<>>

Response(status, served) == [status |-> status, served |-> served]

\* send_from_directory(str(matched_path.parent), matched_path.name): the
\* file the operating system finds at the path, 404 for a name '..'
send_from_directory(matched_path) ==
    IF matched_path[Len(matched_path)] = DotDot \/ ~IsFile(matched_path)
    THEN Response(404, NoFile)
    ELSE Response(200, Walk(matched_path))

\* the extract ids and file paths of a request: a path of one to three
\* segments
ExtractIds == {ExtractX, ExtractXY, DotDot}

Segments == {DotDot, ExtractX, ExtractXY, Image, ImagePrefix, ShortPrefix}

MaxSegments == 3

FilePaths == UNION {[1..n -> Segments] : n \in 1..MaxSegments}

NoFileRequest == [extract_id |-> DotDot, filepath |-> <<>>]

FilesIdle ==
    /\ fs = BaseTree
    /\ freq = NoFileRequest
    /\ fresp = Response(0, NoFile)

FilesInit ==
    /\ fs \in FileSystems
    /\ freq = NoFileRequest
    /\ fresp = Response(0, NoFile)

\* GET /files/mineru/<extract_id>/<path:filepath>, lines 116-161
serve_mineru_file(extract_id, filepath) ==
    LET root_dir == UploadFolder \o <<MineruFiles, extract_id>>
        full_path == root_dir \o filepath
        matches == find_file_with_prefix(full_path)
    IN  /\ freq' = [extract_id |-> extract_id, filepath |-> filepath]
        /\ IF EscapesRoot(full_path, root_dir)
           THEN fresp' = Response(403, NoFile)
           ELSE IF matches = {}
           THEN fresp' = Response(404, NoFile)
           ELSE \E matched_path \in matches :
                   IF EscapesRoot(matched_path, root_dir)
                   THEN fresp' = Response(403, NoFile)
                   ELSE fresp' = send_from_directory(matched_path)
        /\ UNCHANGED fs
        /\ UNCHANGED <<jobVars, imgVars, genVars, taskVars, setVars, chatVars>>

\* the handler writes nothing to disk: one request against each disk
FilesStep ==
    /\ fresp.status = 0
    /\ \E extract_id \in ExtractIds, filepath \in FilePaths :
           serve_mineru_file(extract_id, filepath)

FilesNext == FilesStep


(* ------- openai_provider.py: the image of a chat response -------------- *)

\* most parts of a list and most links of a text
MaxParts == 2

\* bytes handed to Image.open: an image; an image cut short, which
\* Image.open accepts and Image.load raises on; bytes Image.open raises on
ImageBytes == {"image", "truncated", "garbage"}

\* message.multi_mod_content: parts with a text or with inline_data
ModParts ==
    {[type |-> "text", payload |-> ""]}
        \cup {[type |-> "inline_data", payload |-> p] : p \in ImageBytes}

\* message.content as a list: text parts and image_url parts whose url is a
\* data: URL with a payload or an http address
ContentParts ==
    {[type |-> "text", scheme |-> "", payload |-> ""],
     [type |-> "image_url", scheme |-> "http", payload |-> ""]}
        \cup {[type |-> "image_url", scheme |-> "data", payload |-> p] :
                 p \in ImageBytes}

\* message.content as a string, by what the three patterns find in it, in
\* the order of the text: Markdown image links, addresses outside a link
\* that end in an image extension, and data: URLs; ext tells whether the
\* address ends in an image extension, payload what requests.get fetches
\* there or the bytes of the data: URL
Fetched == {"image", "garbage"}

TextParts ==
    {[type |-> "markdown", ext |-> e, payload |-> p] :
        e \in BOOLEAN, p \in Fetched}
        \cup {[type |-> "url", ext |-> TRUE, payload |-> p] : p \in Fetched}
        \cup {[type |-> "data_uri", ext |-> FALSE, payload |-> p] : p \in ImageBytes}

SeqsOf(parts) == UNION {[1..n -> parts] : n \in 0..MaxParts}

NoContent == [kind |-> "none", list |-> <<>>, str |-> <<>>]

Contents ==
    {NoContent}
        \cup {[kind |-> "list", list |-> l, str |-> <<>>] :
                 l \in SeqsOf(ContentParts) \ {<<>>}}
        \cup {[kind |-> "str", list |-> <<>>, str |-> t] :
                 t \in SeqsOf(TextParts) \ {<<>>}}

ChatMessages ==
    [multi_mod_content : SeqsOf(ModParts), content : Contents]

NotExtracted == [kind |-> "none", strategy |-> "", payload |-> ""]

ExtractReturned(strategy, payload) ==
    [kind |-> "returned", strategy |-> strategy, payload |-> payload]

\* the exception leaves _generate_image_via_chat_completions
ExtractRaised(strategy) ==
    [kind |-> "raised", strategy |-> strategy, payload |-> ""]

\* Image.open(BytesIO(...)) raises
OpenRaises(payload) == payload = "garbage"

\* Image.open(...) followed by image.load() raises
LoadRaises(payload) == payload # "image"

IsInlineData(part) == part.type = "inline_data"

IsDataUrlPart(part) == part.type = "image_url" /\ part.scheme = "data"

IsMarkdown(part) == part.type = "markdown"

IsImageUrl(part) == part.type \in {"markdown", "url"} /\ part.ext

IsDataUri(part) == part.type = "data_uri"

\* the first part a strategy finds, <<>> when it finds none
First(parts) == IF parts = <<>> THEN <<>> ELSE <<Head(parts)>>

InlineCandidate(m) == First(SelectSeq(m.multi_mod_content, IsInlineData))

PartCandidate(m) == First(SelectSeq(m.content.list, IsDataUrlPart))

MarkdownCandidate(m) == First(SelectSeq(m.content.str, IsMarkdown))

UrlCandidate(m) == First(SelectSeq(m.content.str, IsImageUrl))

DataUriCandidate(m) == First(SelectSeq(m.content.str, IsDataUri))

\* lines 548-560: the data: URL of a string, base64_matches[0], inside try
ExtractDataUri(m) ==
    LET c == DataUriCandidate(m)
    IN  IF c # <<>> /\ ~OpenRaises(Head(c).payload)
        THEN ExtractReturned("data_uri", Head(c).payload)
        ELSE ExtractRaised("none")

\* lines 530-546: url_matches[0], fetched and loaded inside try
ExtractUrl(m) ==
    LET c == UrlCandidate(m)
    IN  IF c # <<>> /\ ~LoadRaises(Head(c).payload)
        THEN ExtractReturned("url", Head(c).payload)
        ELSE ExtractDataUri(m)

\* lines 512-528: markdown_matches[0], fetched and loaded inside try
ExtractMarkdown(m) ==
    LET c == MarkdownCandidate(m)
    IN  IF c # <<>> /\ ~LoadRaises(Head(c).payload)
        THEN ExtractReturned("markdown", Head(c).payload)
        ELSE ExtractUrl(m)

\* lines 466-560: message.content, a list or a string; b64decode and
\* Image.open of a part of the list are not inside a try
ExtractContent(m) ==
    IF m.content.kind = "list"
    THEN LET c == PartCandidate(m)
         IN  IF c = <<>> THEN ExtractRaised("none")
             ELSE IF OpenRaises(Head(c).payload) THEN ExtractRaised("image_url")
             ELSE ExtractReturned("image_url", Head(c).payload)
    ELSE IF m.content.kind = "str" THEN ExtractMarkdown(m)
    ELSE ExtractRaised("none")

\* lines 446-567: multi_mod_content first, not inside a try either; the
\* ValueError of line 567 is ExtractRaised("none")
ExtractImage(m) ==
    LET c == InlineCandidate(m)
    IN  IF c = <<>> THEN ExtractContent(m)
        ELSE IF OpenRaises(Head(c).payload) THEN ExtractRaised("inline_data")
        ELSE ExtractReturned("inline_data", Head(c).payload)

ChatIdle ==
    /\ chat_message = [multi_mod_content |-> <<>>, content |-> NoContent]
    /\ extracted = NotExtracted

ChatInit ==
    /\ chat_message \in ChatMessages
    /\ extracted = NotExtracted

\* the extraction of one response
Extract ==
    /\ extracted = NotExtracted
    /\ extracted' = ExtractImage(chat_message)
    /\ UNCHANGED chat_message
    /\ UNCHANGED <<jobVars, imgVars, genVars, taskVars, setVars, fileVars>>

ChatNext == Extract

ExtIdle == TaskIdle /\ SettingsInit /\ FilesIdle /\ ChatIdle

(* ------------------------- specifications ------------------------------ *)

\* no image generation call is in progress
ImagesIdle ==
    /\ ipc = "idle"
    /\ configured = 0
    /\ prompt_variants = <<>>
    /\ vi = 0
    /\ attempt = 0
    /\ nreq = <<>>
    /\ last = NoOutcome
    /\ wait = 0
    /\ hinted = FALSE
    /\ allTransient = FALSE
    /\ given = [is_yunwu |-> FALSE, is_seedream |-> FALSE,
                p |-> [raw |-> <<>>, san |-> <<>>, fb |-> <<>>]]
    /\ last_error_message = {}
    /\ error = NoError

vars == <<jobVars, imgVars, genVars, extVars>>

JobInit ==
    /\ hpc = [r \in Reqs |-> "start"]
    /\ resp = [r \in Reqs |-> 0]
    /\ tempdirs = {}
    /\ tasks = <<>>
    /\ wpc = [j \in Jobs |-> "none"]
    /\ active = [j \in Jobs |-> 0]
    /\ submits = [j \in Jobs |-> 0]
    /\ rejected = {}
    /\ sub = [j \in Jobs |-> [k \in Steps |-> "idle"]]
    /\ local = [j \in Jobs |-> [k \in Steps |-> ZeroProgress]]
    /\ lock = [j \in Jobs |-> 0]

\* the material generation requests and their workers
JobStep ==
    \/ \E r \in Reqs : Handler(r)
    \/ \E j \in Jobs : Worker(j)

JobNext == JobStep

InitJob == JobInit /\ ImagesIdle /\ GenerateIdle /\ ExtIdle

SpecJob == InitJob /\ [][JobNext]_vars

\* the request threads and the pool do not all stop while a handler or an
\* accepted work has a step to take
FairSpecJob ==
    /\ SpecJob
    /\ WF_vars(JobNext)

\* one batch job, the first id, and its concurrent sub-steps
BatchJob == CHOOSE j \in Jobs : \A i \in Jobs : j <= i

ProgressStep ==
    \/ \E n \in Steps : CreateBatch(BatchJob, n)
    \/ Worker(BatchJob)

ProgressNext == ProgressStep

SpecProgress == InitJob /\ [][ProgressNext]_vars

InitImages == ImagesInit /\ JobInit /\ GenerateIdle /\ ExtIdle

SpecImages == InitImages /\ [][ImagesNext]_vars

InitGenerate == GenerateInit /\ JobInit /\ ExtIdle

SpecGenerate == InitGenerate /\ [][GenerateNext]_vars

InitTask == TaskInit /\ JobInit /\ ImagesIdle /\ GenerateIdle /\ SettingsInit /\ FilesIdle /\ ChatIdle

SpecTask == InitTask /\ [][TaskNext]_vars

InitSettings == SettingsInit /\ TaskIdle /\ JobInit /\ ImagesIdle /\ GenerateIdle /\ FilesIdle /\ ChatIdle

SpecSettings == InitSettings /\ [][SettingsNext]_vars

InitFiles == FilesInit /\ TaskIdle /\ SettingsInit /\ JobInit /\ ImagesIdle /\ GenerateIdle /\ ChatIdle

SpecFiles == InitFiles /\ [][FilesNext]_vars

InitChat ==
    /\ ChatInit /\ TaskIdle /\ SettingsInit /\ FilesIdle
    /\ JobInit /\ ImagesIdle /\ GenerateIdle

SpecChat == InitChat /\ [][ChatNext]_vars

\* calls with reference images on the provider that builds the most prompt
\* variants, yunwu.ai
InitGenerateYunwu == InitGenerate /\ ref_images /\ given.is_yunwu

\* the thread that called generate_image keeps running it
FairSpecGenerate ==
    /\ InitGenerateYunwu
    /\ [][GenerateNext]_vars
    /\ WF_vars(GenerateNext)

(* --------------------- properties of the job side ---------------------- *)

Terminal(status) == status \in {"COMPLETED", "FAILED"}

Rank(status) ==
    CASE status = "PENDING" -> 0
      [] status = "RUNNING" -> 1
      [] OTHER -> 2

\* C1: a job whose work body raised an exception eventually has status
\* FAILED and a non-empty error message; it does not stay PENDING or RUNNING.
C1_RaisedJobFails ==
    \A j \in Jobs :
        (wpc[j] = "raised") ~>
            (/\ j \in DOMAIN tasks
             /\ tasks[j].status = "FAILED"
             /\ tasks[j].error_message # "")

\* a job failed by the wrapper: no sub-step had reported when it failed
C1_Witness ==
    \E j \in DOMAIN tasks :
        /\ wpc[j] \in {"finalize", "done"}
        /\ \A k \in Steps : sub[j][k] \in {"idle", "ok", "fail"}
        /\ tasks[j].status = "FAILED"
        /\ tasks[j].error_message # ""

\* C2: when the submission of a job was rejected, the job is FAILED, not
\* PENDING, from the rejection on, hence when the response is returned.
C2_RejectedIsFailed ==
    \A r \in rejected :
        /\ r \in DOMAIN tasks
        /\ tasks[r].status = "FAILED"
        /\ resp[r] \in {0, 503}

C2_Witness ==
    \E r \in rejected : resp[r] = 503 /\ hpc[r] = "done" /\ tasks[r].status = "FAILED"

\* C3: a job starts PENDING, its status only moves forward in the order
\* PENDING, RUNNING, {COMPLETED, FAILED}, and a COMPLETED or FAILED job never
\* changes status again.
C3_StatusMonotonic ==
    [][ /\ \A j \in DOMAIN tasks :
             /\ j \in DOMAIN tasks'
             /\ tasks'[j].status # tasks[j].status =>
                    /\ ~Terminal(tasks[j].status)
                    /\ Rank(tasks'[j].status) > Rank(tasks[j].status)
        /\ \A j \in DOMAIN tasks' \ DOMAIN tasks : tasks'[j].status = "PENDING"
      ]_vars

\* both terminal states reached through RUNNING, by two jobs
C3_Witness ==
    /\ \E j \in DOMAIN tasks : tasks[j].status = "COMPLETED" /\ wpc[j] = "done"
    /\ \E j \in DOMAIN tasks : tasks[j].status = "FAILED" /\ wpc[j] = "done"

\* C4: a temporary directory that exists is eventually removed, whichever
\* way the handler and the worker leave.
C4_TempDirRemoved ==
    \A r \in Reqs : (r \in tempdirs) ~> (r \notin tempdirs)

\* one directory removed by the handler after a rejected submission, another
\* by the worker after the job failed
C4_Witness ==
    /\ \E r \in rejected : hpc[r] = "done" /\ r \notin tempdirs
    /\ \E j \in DOMAIN tasks :
         /\ j \notin rejected
         /\ wpc[j] = "done"
         /\ tasks[j].status = "FAILED"
         /\ j \notin tempdirs

C7_OneExecutionPerJob ==
    \A j \in Jobs :
        /\ active[j] <= 1
        /\ submits[j] <= 1
        /\ resp[j] = 202 => submits[j] = 1
        /\ wpc[j] \in {"queued", "running", "raised", "finalize"} => active[j] = 1

\* two jobs running at once, each with its single execution
C7_Witness ==
    \E i, j \in Jobs :
        /\ i # j
        /\ wpc[i] = "running" /\ active[i] = 1
        /\ wpc[j] = "running" /\ active[j] = 1

(* -------------- properties of the Images-API attempt loop -------------- *)

\* the attempt budget as the design states it
Budget == IF configured + 1 > 5 THEN configured + 1 ELSE 5

\* a step that sent a request
Sent == nreq' # nreq

C9_RejectionNotRetried ==
    [][ (/\ Sent
         /\ last'.kind = "http"
         /\ last'.status \in {429, 500, 502, 503, 504}
         /\ _looks_like_prompt_rejected(last'.message))
        => /\ ipc' = "post" => vi' # vi
           /\ NextVariant(vi) # 0 => (ipc' = "post" /\ vi' = NextVariant(vi))
      ]_vars

\* the ceiling of the backoff after a failure of this kind
Ceiling(kind) == IF kind = "transport" THEN 20 ELSE 30

\* C10 as stated: every sleep between attempts is at most the ceiling of its
\* failure kind, equals min(2 * 2^(a-1), ceiling) after attempt a, and is not
\* shorter than the sleep before it.
C10_EverySleepCapped ==
    [][ (Sent /\ wait' # 0)
        => /\ wait' <= Ceiling(last'.kind)
           /\ wait' = Min(2 * (2 ^ (attempt - 1)), Ceiling(last'.kind))
           /\ wait # 0 => wait <= wait'
      ]_vars

\* C10, amended: every sleep that is not read from a positive Retry-After
\* header is at most the ceiling of its failure kind, equals
\* min(2 * 2^(a-1), ceiling) after attempt a, and is not shorter than a
\* backoff of the same failure kind slept just before it.
C10_BackoffCapped ==
    [][ (Sent /\ wait' # 0 /\ ~hinted')
        => /\ wait' <= Ceiling(last'.kind)
           /\ wait' = Min(2 * (2 ^ (attempt - 1)), Ceiling(last'.kind))
           /\ (wait # 0 /\ ~hinted /\ last.kind = last'.kind) => wait <= wait'
      ]_vars

\* a backoff at the ceiling of HTTP failures, and one at that of transport
\* errors, were slept
C10_Witness ==
    /\ ipc = "post"
    /\ ~hinted
    /\ attempt >= 6
    /\ \/ last.kind = "http" /\ wait = 30
       \/ last.kind = "transport" /\ wait = 20

\* a Retry-After header with a positive value
PositiveHint(h) == h.present /\ h.parses /\ h.finite /\ h.value > 0

\* C11: after a transient HTTP failure (429, 500, 502, 503 or 504 without
\* rejection marker) that is not the last attempt, the engine sleeps the
\* Retry-After value when the header is present and positive, otherwise the
\* backoff min(2 * 2^(a-1), 30), and then sends the same prompt variant again.
C11_RetryAfterOrBackoff ==
    [][ (/\ Sent
         /\ last'.kind = "http"
         /\ last'.status \in {429, 500, 502, 503, 504}
         /\ ~_looks_like_prompt_rejected(last'.message)
         /\ attempt < Budget)
        => /\ ipc' = "post"
           /\ vi' = vi
           /\ attempt' = attempt + 1
           /\ wait' = IF PositiveHint(last'.retry_after)
                      THEN last'.retry_after.value
                      ELSE Min(2 * (2 ^ (attempt - 1)), 30)
      ]_vars

\* the last request got a response below 400
Succeeded(o) == o.kind = "http" /\ o.status < 400

\* C12: the response below 400 of attempt k ends the attempts: it is the
\* k-th request of its variant, no request is sent after it, and the call
\* returns the image its body decodes to.
C12_SuccessStopsRetries ==
    [][ /\ Succeeded(last) => (nreq' = nreq /\ ipc' \in {"returned", "raised"})
        /\ (Sent /\ Succeeded(last'))
             => (ipc' = "decode" /\ vi' = vi /\ nreq'[vi] = attempt)
        /\ ipc' = "returned" => (Succeeded(last') /\ nreq'[vi'] = attempt')
      ]_vars

\* scenario A: "no available channels" on attempts 1 and 2, the image on 3
C12_Witness ==
    /\ ipc = "returned"
    /\ attempt = 3
    /\ nreq[vi] = 3
    /\ last.status = 200
    /\ _looks_like_no_channels_error(last_error_message)

\* the last attempt of the budget failed by a transport error or by a status
\* that is retried
Exhausted ==
    /\ vi # 0
    /\ nreq[vi] = Budget
    /\ last.vi = vi
    /\ \/ last.kind = "transport"
       \/ last.kind = "http" /\ last.status \in {429, 500, 502, 503, 504}

\* C13 as stated: with the budget exhausted the call has raised, and the
\* error has the status and the message of the last attempt.
C13_LastErrorSurfaced ==
    Exhausted =>
        /\ ipc = "raised"
        /\ error.kind = last.kind
        /\ error.status = last.status
        /\ error.message = last.message

\* C13, amended: with the budget exhausted the call has raised; the error is
\* the transport error of the last attempt, or has the status of the last
\* response and its message, except for a last response of status 429,
\* whose error is the fixed rate-limit text without the message.
C13_LastAttemptSurfaced ==
    Exhausted =>
        /\ ipc = "raised"
        /\ error.kind = last.kind
        /\ error.status = last.status
        /\ error.message = IF last.status = 429 THEN {} ELSE last.message
        /\ last.status = 429 /\ last.json => error.hint = "rate_limit"

\* the budget spent on 503 "no available channels": the error says so
C13_Witness ==
    /\ Exhausted
    /\ configured + 1 > 5
    /\ last.status = 503
    /\ _looks_like_no_channels_error(error.message)
    /\ error.hint = "no_channels"

\* a failure that is retried in place
TransientFailure(o) ==
    \/ o.kind = "transport"
    \/ /\ o.kind = "http"
       /\ o.status \in {429, 500, 502, 503, 504}
       /\ ~_looks_like_prompt_rejected(o.message)

\* a rejection the engine has confirmed: status 500 with a rejection marker
ConfirmedRejection(o) ==
    o.kind = "http" /\ o.status = 500 /\ _looks_like_prompt_rejected(o.message)

C15_FreshBudgetPerVariant ==
    [][ /\ (vi # 0 /\ vi' # vi)
             => (ipc' = "post" /\ attempt' = 1 /\ nreq'[vi'] = 0
                 /\ wait' = 0 /\ ~hinted')
        /\ ipc' = "post" => (nreq'[vi'] = attempt' - 1 /\ attempt' <= Budget)
        /\ (Sent /\ attempt = 1 /\ wait' # 0 /\ ~hinted') => wait' = 2
      ]_vars

\* scenario B: the second variant, reached after the rejection of the first,
\* spent a whole budget of its own
C15_Witness ==
    /\ vi = 2
    /\ nreq[1] >= 1
    /\ nreq[2] = Budget
    /\ configured + 1 > 5
    /\ ipc = "raised"

\* C18: a response of status 200 whose image cannot be decoded is not
\* followed by a request of the same prompt variant, and it is followed by
\* the next prompt variant when one remains.
C18_UndecodableTriesNextVariant ==
    [][ (ipc = "decode" /\ last.status = 200 /\ ipc' # "returned")
        => /\ ipc' = "post" => vi' # vi
           /\ NextVariant(vi) # 0 => (ipc' = "post" /\ vi' = NextVariant(vi))
      ]_vars

\* the variants the call is to try, in order, for what it was given: fb is
\* the synthesized pictorial prompt, san the sanitized prompt
ExpectedVariants ==
    LET fb  == given.p.fb
        san == given.p.san
        specific == IF given.is_yunwu /\ given.is_seedream /\ fb # <<>>
                    THEN <<fb>> ELSE <<>>
        cleaned  == IF given.is_yunwu /\ san # <<>> /\ san # fb
                    THEN <<san>>
                    ELSE IF given.is_yunwu /\ san # <<>> /\ specific = <<>>
                    THEN <<san>> ELSE <<>>
    IN  IF specific \o cleaned = <<>> THEN <<given.p.raw>> ELSE specific \o cleaned

\* C19: the variants are the synthesized pictorial prompt, for a strict
\* provider's model, then the sanitized prompt, in this order, a rewrite that
\* came out empty being left out; they are tried in the order of the list,
\* and every request carries the stripped text of its variant, never empty.
C19_VariantsInOrder ==
    [][ /\ prompt_variants' = ExpectedVariants'
        /\ vi' >= vi
        /\ Sent => (vi' >= vi /\ Strip(prompt_variants[vi]) # <<>>)
        /\ \A k \in 1..Len(prompt_variants) :
             (Strip(prompt_variants[k]) = <<>>) => nreq'[k] = 0
      ]_vars

\* both variants of a strict provider's model were sent, the synthesized
\* prompt first
C19_Witness ==
    /\ Len(prompt_variants) = 2
    /\ prompt_variants[1] = given.p.fb
    /\ prompt_variants[2] = given.p.san
    /\ given.p.fb = <<"base", "desc">>
    /\ given.p.san = <<"desc", "text">>
    /\ nreq[1] >= 1
    /\ nreq[2] >= 1

(* ---------------------- properties of generate_image ------------------- *)

\* routing chose the chat call and it failed with a text of no channel
ChatHadNoChannel ==
    /\ ~_prefers_images_api(model)
    /\ chat_failure # <<>>
    /\ _looks_like_no_channels_error(Head(chat_failure))

\* C16: when routing chose the chat protocol and the chat call failed with
\* a text that contains "no available channel(s)", generate_image calls
\* _generate_image_via_images_api once, which takes the prompt and no
\* reference images; the image it returns is returned, and the exception it
\* raises is the one surfaced to the caller.
C16_OneFallbackToImagesApi ==
    /\ images_calls <= 1
    /\ chat_calls <= 1
    /\ ChatHadNoChannel =>
         /\ images_calls = 1
         /\ chat_calls = 1
         /\ gpc \in {"images", "returned", "raised"}
         /\ gpc = "returned" => ipc = "returned"
         /\ gpc = "raised" =>
              /\ ipc = "raised"
              /\ surfaced.from = "images"
              /\ surfaced.error = error
         /\ gpc = "images" => surfaced = NotSurfaced

\* scenario C: the chat call of a call with reference images found no
\* channel, and the image of the Images API was returned
C16_Witness ==
    /\ ChatHadNoChannel
    /\ ref_images
    /\ gpc = "returned"
    /\ ipc = "returned"
    /\ images_calls = 1
    /\ nreq # <<>>
    /\ nreq[vi] >= 1

\* a status of the 4xx range other than 429, of those the backend answers
FatalStatus(status) == status \in {400, 401, 403, 404}

\* the hint of a status that has one of its own
SpecificHint(status) ==
    CASE status = 401 -> "api_key"
      [] status = 403 -> "permission"
      [] status = 404 -> "endpoint"
      [] OTHER -> ""

\* C17: after a response of the Images API with status 401, 403, 404 or
\* another 4xx except 429, no request is sent any more in the generation
\* call, neither to the Images API nor to the chat endpoint, and the error
\* generate_image raises is the error of that response, with the hint of
\* its status.
C17_FatalSurfacedAtOnce ==
    [][ (last'.kind = "http" /\ FatalStatus(last'.status))
        => /\ last.kind = "http" /\ FatalStatus(last.status)
                => (nreq' = nreq /\ chat_calls' = chat_calls)
           /\ ipc' = "raised"
           /\ gpc' # "returned"
           /\ gpc' = "raised" =>
                /\ surfaced'.from = "images"
                /\ surfaced'.error.status = last'.status
                /\ last'.status \in {401, 403, 404}
                     => surfaced'.error.hint = SpecificHint(last'.status)
      ]_vars

\* C20: for a model routed to the Images API the reference images of the
\* caller are sent to no backend.
C20_ReferenceImagesDropped ==
    _prefers_images_api(model) => ~chat_refs

RECURSIVE SumSeq(_)
SumSeq(seq) == IF seq = <<>> THEN 0 ELSE Head(seq) + SumSeq(Tail(seq))

\* generate_image has returned or raised
GenerateDone == gpc \in {"returned", "raised"}

\* C22: every call of generate_image ends, having sent at most (number of
\* prompt variants) x (attempt budget) requests to the Images API and made
\* at most one chat call.
C22_GenerateTerminates ==
    /\ [](/\ SumSeq(nreq) <= Len(prompt_variants) * Budget
          /\ chat_calls <= 1)
    /\ <>GenerateDone

\* both budgets spent: every attempt of two variants, and the chat call
C22_Witness ==
    /\ GenerateDone
    /\ Len(prompt_variants) = 2
    /\ SumSeq(nreq) = 2 * Budget
    /\ chat_calls = 1

\* a protocol gave generate_image an image to return
ImageProduced ==
    \/ ipc = "returned"
    \/ chat_calls = 1 /\ chat_failure = <<>>

C25_EachProtocolOnce ==
    /\ images_calls <= 1
    /\ chat_calls <= 1
    /\ (_prefers_images_api(model) /\ chat_calls = 1)
         => (images_calls = 1 /\ ipc = "raised")
    /\ (~_prefers_images_api(model) /\ images_calls = 1) => ChatHadNoChannel
    /\ (images_calls = 1 /\ chat_calls = 1 /\ gpc \notin {"images", "chat"})
         => GenerateDone

\* a model routed to the Images API: both protocols were called and failed
C25_Witness ==
    /\ _prefers_images_api(model)
    /\ images_calls = 1
    /\ chat_calls = 1
    /\ gpc = "raised"
    /\ surfaced.from = "chat"

\* C26: the attempt loop sleeps only before another attempt of the same
\* variant: no sleep follows the last attempt of the budget, a rejection, a
\* status that is not retried or a response below 400.
C26_SleepOnlyBeforeRetry ==
    [][ Sent =>
          /\ wait' # 0 => (ipc' = "post" /\ vi' = vi /\ attempt' = attempt + 1)
          /\ attempt >= Budget => wait' = 0
          /\ ConfirmedRejection(last') => wait' = 0
          /\ (last'.kind = "http"
              /\ last'.status \notin {429, 500, 502, 503, 504}) => wait' = 0
      ]_vars

\* the last attempt of the budget failed with a status that is retried, and
\* the call raised without a sleep
C26_Witness ==
    /\ Exhausted
    /\ ipc = "raised"
    /\ last.kind = "http"
    /\ wait = 0
    /\ nreq[vi] = Budget


\* the requests generate_material_image answered from its validation part
ValidationRejected(r) == resp[r] \in {400, 404}

\* C27: a request of generate_material_image rejected by validation has no
\* Task row and no temporary directory; a Task row appears only as a PENDING
\* Task whose progress reads total 1, completed 0, failed 0; and 202 is
\* answered only for a request whose Task is committed and whose work has
\* been submitted once
C27_RejectedCreatesNothing ==
    /\ [](\A r \in Reqs :
            /\ ValidationRejected(r) =>
                   /\ r \notin DOMAIN tasks
                   /\ r \notin tempdirs
                   /\ submits[r] = 0
            /\ resp[r] = 202 =>
                   /\ r \in DOMAIN tasks
                   /\ submits[r] = 1
                   /\ r \notin rejected)
    /\ [][\A r \in Reqs :
            (r \notin DOMAIN tasks /\ r \in DOMAIN tasks') =>
                /\ tasks'[r].status = "PENDING"
                /\ get_progress(tasks'[r]) = [total |-> 1, completed |-> 0, failed |-> 0]
                /\ submits[r] = 0 /\ resp[r] = 0]_vars

C27_Witness ==
    \E r, q \in Reqs :
        /\ resp[r] = 202 /\ r \in DOMAIN tasks
        /\ resp[q] = 400 /\ q \notin DOMAIN tasks /\ q \notin tempdirs


(* ------------------ properties of the Task record ---------------------- *)

\* the value a dict holds under a key, <<>> when it has none
Field(d, k) == IF k \in DOMAIN d THEN <<d[k]>> ELSE <<>>

\* C29: update_progress(completed, failed) leaves the total as it was and
\* each counter whose argument is None as it was, and sets a counter whose
\* argument is given, 0 included, to that value; get_progress after
\* set_progress of a non-empty record returns that record
C29_UpdateProgressFrame ==
    [][LET before == get_progress(trow)
           after == get_progress(trow')
       IN  /\ tcall'.op = "update_progress" =>
                  /\ Field(after, "total") = Field(before, "total")
                  /\ IF tcall'.completed = None
                     THEN Field(after, "completed") = Field(before, "completed")
                     ELSE Field(after, "completed") = tcall'.completed
                  /\ IF tcall'.failed = None
                     THEN Field(after, "failed") = Field(before, "failed")
                     ELSE Field(after, "failed") = tcall'.failed
           /\ (tcall'.op = "set_progress" /\ DOMAIN tcall'.data # {}) =>
                  after = tcall'.data]_vars

C29_Witness ==
    /\ tcall.op = "update_progress"
    /\ tcall.completed = Some(0) /\ tcall.failed = None
    /\ get_progress(trow) = [total |-> 2, completed |-> 0, failed |-> 1]


(* ------------------ properties of update_settings ---------------------- *)

\* a worker field that carries a number outside MinWorkers..MaxWorkers
OutOfRange(field) ==
    /\ field # Absent
    /\ \/ /\ Head(field).type = "int"
          /\ Head(field).n \notin MinWorkers..MaxWorkers
       \/ /\ Head(field).type = "float"
          /\ (Head(field).n < 10 * MinWorkers \/ Head(field).n > 10 * MaxWorkers)

WorkersInRange ==
    /\ config.MAX_DESCRIPTION_WORKERS \in MinWorkers..MaxWorkers
    /\ config.MAX_IMAGE_WORKERS \in MinWorkers..MaxWorkers
    /\ stored.max_description_workers \in MinWorkers..MaxWorkers
    /\ stored.max_image_workers \in MinWorkers..MaxWorkers

\* C24: after any sequence of update_settings requests both worker counts of
\* the application config lie in 1..20, and a request that carries a worker
\* count outside 1..20 is answered 400
C24_WorkersBounded ==
    /\ []WorkersInRange
    /\ [][(OutOfRange(sreq'.max_description_workers)
            \/ OutOfRange(sreq'.max_image_workers)) => sresp' = 400]_vars

\* the fields of the row
SettingsFields == DOMAIN DefaultSettings

Inside(place, dir) ==
    /\ Len(dir) <= Len(place)
    /\ SubSeq(place, 1, Len(dir)) = dir

ExtractDir(extract_id) == Resolve(UploadFolder \o <<MineruFiles, extract_id>>)

\* C30: serve_mineru_file serves no file outside
\* uploads/mineru_files/<extract_id>: a request is answered with a file
\* inside that directory, or with 403 or 404
C30_ServedInsideExtract ==
    /\ fresp.status \in {0, 200, 403, 404}
    /\ fresp.status = 200 =>
           Inside(Head(fresp.served), ExtractDir(freq.extract_id))


(* -------------- properties of the chat image extraction ---------------- *)

\* the strategies in their priority order, each with what it finds in the
\* message
Strategies(m) ==
    << [name |-> "inline_data", found |-> InlineCandidate(m)],
       [name |-> "image_url", found |-> PartCandidate(m)],
       [name |-> "markdown", found |-> MarkdownCandidate(m)],
       [name |-> "url", found |-> UrlCandidate(m)],
       [name |-> "data_uri", found |-> DataUriCandidate(m)] >>

\* a strategy yields decodable bytes
Yields(strategy) ==
    strategy.found # <<>> /\ Head(strategy.found).payload = "image"

\* C21: the extraction strategies are tried in the order inline data,
\* data-URI image part, Markdown link, bare image URL, data URI in the
\* text; the result is the image of the first that yields decodable bytes, a
\* strategy that does not is passed over, and the call raises when none does
C21_FirstDecodableWins ==
    extracted # NotExtracted =>
        LET yielding == SelectSeq(Strategies(chat_message), Yields)
        IN  IF yielding = <<>>
            THEN extracted.kind = "raised"
            ELSE /\ extracted.kind = "returned"
                 /\ extracted.strategy = Head(yielding).name
                 /\ extracted.payload = "image"

====
